---------------------------- MODULE Spec2Model ----------------------------
(***************************************************************************)
(* A model of the open-addressing hash table `Index` (src/src/lib.rs).     *)
(*                                                                         *)
(* The engine is the record [capacity, len, table]; `table` maps the slot  *)
(* indices 0 .. capacity-1 to a bucket, which is Empty (Bucket::None) or   *)
(* a pair <<key, value>> (Bucket::Some).  The f64 parameters max_load and  *)
(* growth_policy are kept as exact fractions <<numerator, denominator>>;   *)
(* every fraction used below is compared or multiplied exactly as the f64  *)
(* arithmetic of the source does on operands of this size.                 *)
(*                                                                         *)
(* The modules `hash` and `iter` that lib.rs declares are not part of the  *)
(* source tree: the hash of a key is an arbitrary but fixed function       *)
(* (hashOf), and Drain / IterMut follow the written specification.         *)
(***************************************************************************)
EXTENDS Integers, Sequences, FiniteSets, TLC

\* ------------------------------------------------------------------ bounds

\* Keys, values and hash values the model draws from.
AllKeys == {"a", "b", "c", "d"}
Keys == {"a", "b", "c"}
Values == {1, 2}
Hashes == 0 .. 2
TraceHashes == 0 .. 7

\* Growth past this capacity is not explored.
MaxCapacity == 16
\* The capacity requested at construction ranges over 0 .. MaxInitCap.
MaxInitCap == 3
\* Abandoned drains and iter_mut writes explored between two empty tables.
MaxDirty == 1
\* The borrows that the RefCells count together: the handles (Ref, RefMut)
\* alive and those forgotten.
MaxHandles == 2
\* The buckets left borrowed by handles passed to std::mem::forget.
MaxForgotten == 1
\* The width of usize in this model: hashes and probe sums are WordBits wide
\* (64 in the source; 2 ^ WordBits and 2 ^ 64 leave the same remainder at
\* every capacity that doubling reaches from 1, 2 or 3).  No probe of a hash
\* in Hashes or TraceHashes comes near 2 ^ WordBits at the capacities up to
\* MaxCapacity.
WordBits == 28
Word == 2 ^ WordBits
\* The bits of a word that the significand of f64 does not hold (64 - 53).
FloatLoss == 11
\* The width of the significand of f64 in this model: as in the source the
\* integers below 2 ^ FloatBits are exact, and the 2 ^ (FloatLoss - 1)
\* largest words round up to 2 ^ WordBits.
FloatBits == WordBits - FloatLoss
FloatLimit == 2 ^ FloatBits

\* --------------------------------------------------------------- constants

DEFAULT_MAX_LOAD == <<7, 10>>
DEFAULT_GROWTH_POLICY == <<2, 1>>
DEFAULT_PROBING == "quadratic"
DEFAULT_INITIAL_CAPACITY == 1

\* Bucket::None.  Bucket::Some(RefCell::new((k, v))) is the pair <<k, v>>.
Empty == <<>>

\* Option<V> as returned by get: None is <<>>, Some(v) is <<v>>.
None == <<>>
Some(v) == <<v>>

\* The call did not return: it panicked.
Unwinds == <<"panic", "panic">>

\* The parameters of with_capacity (the default configuration).
DefaultParams ==
    [max_load |-> DEFAULT_MAX_LOAD,
     growth_policy |-> DEFAULT_GROWTH_POLICY,
     probe |-> DEFAULT_PROBING]

\* The configurations with_capacity_and_parameters is given in this model:
\* the default one, a small max_load, a growth_policy between 1 and 2, and
\* the probe of the documentation example with max_load 1.
Configs ==
    {DefaultParams,
     [max_load |-> <<1, 4>>, growth_policy |-> <<2, 1>>, probe |-> "linear"],
     [max_load |-> <<7, 10>>, growth_policy |-> <<3, 2>>, probe |-> "linear"],
     [max_load |-> <<1, 1>>, growth_policy |-> <<2, 1>>, probe |-> "triangular"]}

VARIABLES
    params,     \* Index.params (max_load, growth_policy, probe)
    hashOf,     \* make_hash(hasher_builder, key) for every key
    capacity,   \* Index.capacity
    len,        \* Index.len
    table,      \* Index.table
    pc,         \* "idle", "draining" (a Drain is alive), "drained" (it
                \* returned None and is still alive), "diverged" (an insert
                \* recursed without end), "faulted" (a call panicked)
    drainPos,   \* the Drain's position in the table
    yielded,    \* the pairs the Drain has yielded so far, in order
    drainFrom,  \* the engine as it was when the Drain was created
    absMap,     \* the abstract map: the last value stored per key
    dirty,      \* the abandoned drains and iter_mut writes since the table
                \* was last empty by construction, clear or an exhausted drain
    borrows,    \* the borrow state of the RefCells: <<slot, readers, writers,
                \* whole, forgotten>> for every bucket whose RefCell is
                \* borrowed; whole says that the RefMut is one of iter_mut, to
                \* the whole pair; forgotten counts the borrows whose Ref or
                \* RefMut was passed to std::mem::forget, which no drop will
                \* ever release
    fault,      \* the call that panicked, once pc is "faulted"
    build       \* "debug" (overflow checks on) or "release" (wrapping)

vars == <<params, hashOf, capacity, len, table, pc, drainPos, yielded,
          drainFrom, absMap, dirty, borrows, fault, build>>

\* Only insert, clear and exhausted drains made the present contents.
plain == dirty = 0

\* No handle is alive: every borrow that a RefCell still counts is one whose
\* handle was forgotten.  This is what a call through &mut self asks for.
NoHandle == \A b \in borrows : b[2] + b[3] = b[5]

\* No Drain and no handle is alive: every call can be made.
Quiet == pc = "idle" /\ NoHandle

\* No bucket is mutably borrowed: no RefMut is alive, and none was forgotten
\* while it held its bucket.  Every lookup then passes every bucket.
Unlocked == \A b \in borrows : b[3] = 0

\* The engine as one value; cells is the borrow state of its RefCells.
Self == [capacity |-> capacity, len |-> len, table |-> table,
         cells |-> borrows]

\* ------------------------------------------------------------- arithmetic

\* a >= b on fractions with positive denominators.
RatGeq(a, b) == a[1] * b[2] >= b[1] * a[2]

\* a < b on fractions with positive denominators.
RatLess(a, b) == a[1] * b[2] < b[1] * a[2]

\* (self.params.probe)(hash, i) for the three probes of the model, in
\* unbounded integers and exact fractions.  "triangular" is the probe of the
\* documentation example, hash + i/2 + i*i/2.
ProbeSum(hash, i) ==
    CASE params.probe = "quadratic" -> hash + i + i * i
      [] params.probe = "linear" -> hash + i
      [] params.probe = "triangular" -> hash + ((i + i * i) \div 2)

\* The usize arithmetic of the probe overflows.  No operand is negative, so
\* a partial sum passes the word only if the whole sum does.  The only usize
\* operation of the triangular probe is i*i; its sums are f64 sums.
ProbeTermOverflows(i) == params.probe = "triangular" /\ i * i >= Word
ProbeOverflows(hash, i) ==
    IF params.probe = "triangular"
    THEN ProbeTermOverflows(i)
    ELSE ProbeSum(hash, i) >= Word

\* The number of binary digits of n.
RECURSIVE BitLen(_)
BitLen(n) == IF n = 0 THEN 0 ELSE 1 + BitLen(n \div 2)

\* An f64 is kept as the number of its halves (every f64 of the probe is a
\* multiple of 1/2).  RoundF64(n) is the f64 nearest to n halves: n itself
\* when it fits the significand, else the nearest multiple of the unit in
\* the last place, the even one in a tie.
RoundF64(n) ==
    IF n < FloatLimit
    THEN n
    ELSE LET ulp == 2 ^ (BitLen(n) - FloatBits)
             q == n \div ulp
             r == n % ulp
         IN  IF 2 * r < ulp \/ (2 * r = ulp /\ q % 2 = 0)
             THEN q * ulp
             ELSE (q + 1) * ulp

\* x as f64 for a usize x, in halves.
AsF64(x) == RoundF64(2 * x)

\* f as usize for an f64 f that is not negative, given in halves: the
\* fraction is dropped and the cast saturates at usize::MAX.
AsUsize(f) == IF f \div 2 >= Word THEN Word - 1 ELSE f \div 2

\* The probe of the documentation example:
\* (hash as f64 + (i as f64 / 2.0) + ((i*i) as f64 / 2.0)) as usize.
\* x / 2.0 is exact: the halves of x / 2.0 are x.
Triangular(hash, i) ==
    LET sq == (i * i) % Word
        s1 == RoundF64(AsF64(hash) + (AsF64(i) \div 2))
        s2 == RoundF64(s1 + (AsF64(sq) \div 2))
    IN  AsUsize(s2)

\* (self.params.probe)(hash, i) as the code computes it where it does not
\* panic: the usize arithmetic wraps in a release build, the f64 arithmetic
\* rounds and its cast saturates.  It is ProbeSum when nothing overflows and
\* nothing is rounded.
ProbeAt(hash, i) ==
    IF params.probe = "triangular"
    THEN Triangular(hash, i)
    ELSE ProbeSum(hash, i) % Word

\* ------------------------------------------------------------ the RefCells

\* The n-th count that cells keeps for bucket i: 2 for the shared borrows
\* (Ref), 3 for the exclusive ones (RefMut), 5 for the forgotten ones.
CountIn(cells, i, n) ==
    IF cells # {} /\ \E b \in cells : b[1] = i
    THEN (CHOOSE b \in cells : b[1] = i)[n] ELSE 0

\* The shared and exclusive borrows that the RefCell of bucket i counts, and
\* those among them whose handle was forgotten.
Readers(i) == CountIn(borrows, i, 2)
Writers(i) == CountIn(borrows, i, 3)
Forgotten(i) == CountIn(borrows, i, 5)

\* The Refs and RefMuts alive on bucket i.
LiveReaders(i) == IF Writers(i) > 0 THEN 0 ELSE Readers(i) - Forgotten(i)
LiveWriters(i) == IF Writers(i) > 0 THEN Writers(i) - Forgotten(i) ELSE 0

\* borrows with the counts of bucket i set to r readers and w writers, the
\* RefMut narrowed to the value (RefMut::map) unless whole.  The forgotten
\* borrows of the bucket stay.
SetBorrowAs(i, r, w, whole) ==
    {b \in borrows : b[1] # i}
        \cup (IF r + w > 0 THEN {<<i, r, w, whole, Forgotten(i)>>} ELSE {})
SetBorrow(i, r, w) == SetBorrowAs(i, r, w, FALSE)

\* cells without the borrow state of the buckets of S: their RefCells are
\* gone (the bucket was overwritten, set to None or taken).
Without(cells, S) == {b \in cells : b[1] \notin S}

\* The RefMut alive on bucket i is a RefMut<(K, V)>.
Whole(i) == \E b \in borrows : b[1] = i /\ b[3] > b[5] /\ b[4]

\* The borrows that the RefCells count.
Borrowed == LET slots == {b[1] : b \in borrows}
                RECURSIVE sum(_)
                sum(S) == IF S = {} THEN 0
                          ELSE LET x == CHOOSE y \in S : TRUE
                               IN  Readers(x) + Writers(x) + sum(S \ {x})
            IN  sum(slots)

\* RefCell::borrow panics when the cell is mutably borrowed.
borrowPanics(cells, i) == CountIn(cells, i, 3) > 0

\* borrow_mut that only looks for another RefMut.
borrowMutIgnoresRefs(i) == Writers(i) > 0

\* RefCell::borrow_mut panics when the cell is borrowed in any way.
borrowMutPanics(i) == Readers(i) + Writers(i) > 0

\* ------------------------------------------------------------ the engine

\* Index::load: len / capacity.
load(idx) == <<idx.len, idx.capacity>>

\* with_capacity_and_parameters that takes the capacity as it is requested.
withCapacityAsRequested(cap) ==
    [capacity |-> cap, len |-> 0, table |-> [i \in 0 .. cap - 1 |-> Empty],
     cells |-> {}]

\* with_capacity_and_parameters and init_table: capacity 0 is coerced, every
\* bucket starts Empty.
with_capacity_and_parameters(cap) ==
    LET c == IF cap = 0 THEN DEFAULT_INITIAL_CAPACITY ELSE cap
    IN  [capacity |-> c, len |-> 0, table |-> [i \in 0 .. c - 1 |-> Empty],
         cells |-> {}]

\* GrowCapacity with an off-by-one in the rounding.
GrowCapacityRoundedUp(cap) ==
    ((cap * params.growth_policy[1]) \div params.growth_policy[2]) + 1

\* The capacity grow asks resize for: (capacity as f64 * growth_policy) as usize.
GrowCapacity(cap) ==
    (cap * params.growth_policy[1]) \div params.growth_policy[2]

\* Index::find from attempt i on: a hit, the first Empty bucket, or exhausted.
\* The call panics ("overflow") when the probe overflows in a debug build,
\* and ("borrowed") when the predicate borrows a bucket whose RefCell is
\* mutably borrowed, by a RefMut that is alive or that was forgotten.
RECURSIVE findFrom(_, _, _, _)
findFrom(idx, hash, key, i) ==
    IF i >= idx.capacity
    THEN [kind |-> "exhausted", pos |-> 0]
    ELSE LET sum == ProbeSum(hash, i)
             exact == sum < Word /\ params.probe # "triangular"
             probe == (IF exact THEN sum ELSE ProbeAt(hash, i)) % idx.capacity
             b == idx.table[probe]
         IN  IF ~exact /\ build = "debug" /\ ProbeOverflows(hash, i)
             THEN [kind |-> "overflow", pos |-> 0]
             ELSE IF b = Empty
             THEN [kind |-> "empty", pos |-> probe]
             ELSE IF idx.cells # {} /\ borrowPanics(idx.cells, probe)
             THEN [kind |-> "borrowed", pos |-> probe]
             ELSE IF b[1] = key
             THEN [kind |-> "hit", pos |-> probe]
             ELSE findFrom(idx, hash, key, i + 1)

find(idx, hash, key) == findFrom(idx, hash, key, 0)

\* find panicked.
Panicked(f) == f.kind \in {"overflow", "borrowed"}

\* The test of insert before anything else: self.load() >= self.params.max_load.
LoadCheck(idx) == RatGeq(load(idx), params.max_load)

\* replace that leaves the old pair in the bucket.
replaceKeepsOld(idx, pos, key, value) == idx

\* replace that counts the pair as a new one.
replaceCountsLen(idx, pos, key, value) ==
    [idx EXCEPT !.table[pos] = <<key, value>>, !.len = @ + 1,
                !.cells = Without(@, {pos})]

\* The hit arm of insert: std::mem::replace of the bucket by the new pair in
\* a RefCell of its own, which nothing has borrowed.
replace(idx, pos, key, value) ==
    [idx EXCEPT !.table[pos] = <<key, value>>, !.cells = Without(@, {pos})]

\* store that forgets len.
storeForgetsLen(idx, pos, key, value) ==
    [idx EXCEPT !.table[pos] = <<key, value>>]

\* The Empty arm of insert: the bucket is written and len incremented.
store(idx, pos, key, value) ==
    [idx EXCEPT !.table[pos] = <<key, value>>, !.len = @ + 1]

\* The outcome of a call that changes the engine: status is "ok", "diverged"
\* (the call never returns), "faulted" (the call panicked; idx is the engine
\* the unwinding leaves) or "overcap" (past MaxCapacity: not explored).
Outcome(status, idx, r) == [status |-> status, idx |-> idx, ret |-> r]

RECURSIVE insert(_, _, _, _)
RECURSIVE resize(_, _)
RECURSIVE reinsert(_, _, _)

\* Index::grow.
grow(idx) == resize(idx, GrowCapacity(idx.capacity))

\* Index::insert.  `seen` holds the engines on which this call has already
\* been entered: entering it again on one of them repeats the same steps for
\* ever.
insert(idx, key, value, seen) ==
    IF idx \in seen
    THEN Outcome("diverged", idx, Empty)
    ELSE
    LET g1 == IF LoadCheck(idx)
              THEN grow(idx)
              ELSE Outcome("ok", idx, Empty)
    IN  IF g1.status # "ok"
        THEN g1
        ELSE
        LET cur == g1.idx
            f == find(cur, hashOf[key], key)
        IN  CASE Panicked(f) -> Outcome("faulted", cur, Empty)
              [] f.kind = "hit" ->
                   Outcome("ok", replace(cur, f.pos, key, value),
                           cur.table[f.pos])
              [] f.kind = "empty" ->
                   Outcome("ok", store(cur, f.pos, key, value), Empty)
              [] OTHER ->
                   LET g2 == grow(cur)
                   IN  IF g2.status # "ok"
                       THEN g2
                       ELSE insert(g2.idx, key, value, seen \cup {idx})

\* The loop of resize: the buckets of the old table from index i on, in the
\* order the Drain yields them, inserted into the new engine.
reinsert(old, i, acc) ==
    IF acc.status = "ok" /\ i < old.capacity
    THEN IF old.table[i] = Empty
         THEN reinsert(old, i + 1, acc)
         ELSE reinsert(old, i + 1,
                       insert(acc.idx, old.table[i][1], old.table[i][2], {}))
    ELSE IF acc.status = "faulted"
         THEN Outcome("faulted", acc.idx, i - 1)   \* the bucket last yielded
         ELSE acc

\* The engine a Drain leaves when it is dropped after it has yielded the
\* buckets up to index i: they are Empty and no longer counted.
drainedThrough(idx, i) ==
    [idx EXCEPT !.table = [j \in 0 .. idx.capacity - 1 |->
                              IF j <= i THEN Empty ELSE idx.table[j]],
                !.len = @ - Cardinality({j \in 0 .. i : idx.table[j] # Empty}),
                !.cells = Without(@, 0 .. i)]

\* Index::resize.  A panic of new_index.insert unwinds before *self is
\* assigned: new_index is dropped and self is what the Drain left of it.
resize(idx, new_capacity) ==
    IF new_capacity > MaxCapacity
    THEN Outcome("overcap", idx, Empty)
    ELSE LET done == reinsert(idx, 0,
                       Outcome("ok", with_capacity_and_parameters(new_capacity), Empty))
         IN  IF done.status = "faulted"
             THEN Outcome("faulted", drainedThrough(idx, done.ret), Empty)
             ELSE Outcome(done.status, done.idx, Empty)

\* Index::get: the value of the bucket find hits; a panic of find leaves
\* get.  (The Ref that get returns is taken by the action Get.)
get(idx, key) ==
    LET f == find(idx, hashOf[key], key)
    IN  IF Panicked(f) THEN Unwinds
        ELSE IF f.kind = "hit" THEN Some(idx.table[f.pos][2]) ELSE None

\* clear that resets len and leaves the buckets.
clearLenOnly(idx) == [idx EXCEPT !.len = 0]

\* Index::clear: every bucket is assigned Bucket::None, which drops its
\* RefCell.
clear(idx) ==
    [idx EXCEPT !.table = [i \in 0 .. idx.capacity - 1 |-> Empty], !.len = 0,
                !.cells = {}]

\* ------------------------------------------------------------- observers

\* The indices of the Occupied buckets.
Occupied(idx) == {i \in 0 .. idx.capacity - 1 : idx.table[i] # Empty}

\* keys().count(), values().count(), iter().count(): the iterators skip the
\* Empty buckets.
count(idx) == Cardinality(Occupied(idx))

\* The stored pairs.
Pairs(idx) == {idx.table[i] : i \in Occupied(idx)}

NoMap(K) == [k \in K |-> None]

\* ---------------------------------------------------------------- actions

NoDrain == [capacity |-> 0, len |-> 0, table |-> <<>>, cells |-> {}]

NoFault == [op |-> "none", key |-> "none"]

\* The keys are interchangeable (the engine only hashes and compares them),
\* so they are named in the order of their hashes: every assignment of hash
\* values is one of these up to the names of the keys.
KeyRank == [k \in AllKeys |-> CASE k = "a" -> 1 [] k = "b" -> 2
                                 [] k = "c" -> 3 [] k = "d" -> 4]
HashAssignments(K, H) ==
    {h \in [K -> H] :
       \A k1, k2 \in K : KeyRank[k1] <= KeyRank[k2] => h[k1] <= h[k2]}

InitWith(K, H, C, Caps, Builds) ==
    /\ params \in C
    /\ hashOf \in HashAssignments(K, H)
    /\ \E cap \in Caps :
         LET idx == with_capacity_and_parameters(cap)
         IN  /\ capacity = idx.capacity
             /\ len = idx.len
             /\ table = idx.table
    /\ pc = "idle"
    /\ drainPos = 0
    /\ yielded = <<>>
    /\ drainFrom = NoDrain
    /\ absMap = NoMap(K)
    /\ dirty = 0
    /\ borrows = {}
    /\ fault = NoFault
    /\ build \in Builds

\* No probe overflows with the hashes of Hashes, so that the two builds
\* behave alike.
Init == InitWith(Keys, Hashes, Configs, 0 .. MaxInitCap, {"debug"})

\* index.insert(key, value): &mut self, so that no handle is alive; a bucket
\* may still be borrowed by a handle that was forgotten.  A panic unwinds out
\* of the call and leaves the engine as it was when find panicked, grown if
\* the call had grown it; no call follows it here.  The inserts that would
\* take the table past MaxCapacity are not explored.
Insert(key, value) ==
    /\ pc = "idle"
    /\ NoHandle
    /\ LET r == insert(Self, key, value, {})
       IN  /\ r.status # "overcap"
           /\ CASE r.status = "diverged" ->
                   /\ pc' = "diverged"
                   /\ UNCHANGED <<capacity, len, table, borrows, absMap, fault>>
                [] r.status = "faulted" ->
                   /\ pc' = "faulted"
                   /\ fault' = [op |-> "insert", key |-> key]
                   /\ capacity' = r.idx.capacity
                   /\ len' = r.idx.len
                   /\ table' = r.idx.table
                   /\ borrows' = r.idx.cells
                   /\ UNCHANGED absMap
                [] OTHER ->
                   /\ pc' = "idle"
                   /\ capacity' = r.idx.capacity
                   /\ len' = r.idx.len
                   /\ table' = r.idx.table
                   /\ borrows' = r.idx.cells
                   /\ absMap' = IF plain
                                THEN [absMap EXCEPT ![key] = Some(value)]
                                ELSE absMap
                   /\ UNCHANGED fault
    /\ UNCHANGED <<params, hashOf, drainPos, yielded, drainFrom, dirty, build>>

\* index.clear(): &mut self, so that no handle is alive; the buckets that
\* forgotten handles left borrowed are emptied with the others.
Clear ==
    /\ pc = "idle"
    /\ NoHandle
    /\ len' = 0
    /\ table' = clear(Self).table
    /\ borrows' = clear(Self).cells
    /\ absMap' = NoMap(DOMAIN hashOf)
    /\ dirty' = 0
    /\ UNCHANGED <<params, hashOf, capacity, pc, drainPos, yielded, drainFrom,
                   fault, build>>

\* index.drain(): &mut self, so that no handle is alive; the Drain borrows
\* the table and len exclusively.
DrainStart ==
    /\ pc = "idle"
    /\ NoHandle
    /\ pc' = "draining"
    /\ drainPos' = 0
    /\ yielded' = <<>>
    /\ drainFrom' = Self
    /\ UNCHANGED <<params, hashOf, capacity, len, table, absMap, dirty,
                   borrows, fault, build>>

\* Drain::next that takes the pair and leaves len as it is.
DrainNextKeepsLen ==
    /\ pc = "draining"
    /\ LET rest == {i \in Occupied(Self) : i >= drainPos}
       IN  IF rest = {}
           THEN /\ pc' = "drained"
                /\ drainPos' = capacity
                /\ UNCHANGED <<len, table, yielded, borrows>>
           ELSE LET j == CHOOSE i \in rest : \A o \in rest : i <= o
                IN  /\ table' = [table EXCEPT ![j] = Empty]
                    /\ len' = len
                    /\ borrows' = Without(borrows, {j})
                    /\ yielded' = Append(yielded, table[j])
                    /\ drainPos' = j + 1
                    /\ pc' = "draining"
    /\ UNCHANGED <<params, hashOf, capacity, drainFrom, absMap, dirty,
                   fault, build>>

\* Drain::next: the next Occupied bucket from drainPos on is taken, pair and
\* RefCell (the pair is moved out of the cell, whatever the cell counts), or
\* the table is at its end and the Drain returns None.
DrainNext ==
    /\ pc = "draining"
    /\ LET rest == {i \in Occupied(Self) : i >= drainPos}
       IN  IF rest = {}
           THEN /\ pc' = "drained"
                /\ drainPos' = capacity
                /\ UNCHANGED <<len, table, yielded, borrows>>
           ELSE LET j == CHOOSE i \in rest : \A o \in rest : i <= o
                IN  /\ table' = [table EXCEPT ![j] = Empty]
                    /\ len' = len - 1
                    /\ borrows' = Without(borrows, {j})
                    /\ yielded' = Append(yielded, table[j])
                    /\ drainPos' = j + 1
                    /\ pc' = "draining"
    /\ UNCHANGED <<params, hashOf, capacity, drainFrom, absMap, dirty,
                   fault, build>>

\* The Drain goes out of scope: after it emptied the table, before it took
\* anything, or in between (abandoned).
DrainDrop ==
    /\ pc \in {"draining", "drained"}
    /\ pc' = "idle"
    /\ drainPos' = 0
    /\ yielded' = <<>>
    /\ drainFrom' = NoDrain
    /\ CASE Occupied(Self) = {} ->
              /\ dirty' = 0
              /\ absMap' = NoMap(DOMAIN hashOf)
         [] Occupied(Self) # {} /\ yielded = <<>> ->
              UNCHANGED <<dirty, absMap>>
         [] OTHER ->
              /\ dirty < MaxDirty
              /\ dirty' = dirty + 1
              /\ absMap' = NoMap(DOMAIN hashOf)
    /\ UNCHANGED <<params, hashOf, capacity, len, table, borrows, fault, build>>

\* The call op(key) panics: the process is taken to end there.
Panic(op, key) ==
    /\ pc' = "faulted"
    /\ fault' = [op |-> op, key |-> key]
    /\ UNCHANGED borrows

\* A lookup through &self, which no Drain (&mut self) can be alive with:
\* find, and on a hit the borrow of the pair that the handle keeps.  A miss
\* returns None and changes nothing.
Lookup(op, key, exclusive) ==
    /\ pc = "idle"
    /\ LET f == find(Self, hashOf[key], key)
           hit == f.kind = "hit"
       IN  CASE Panicked(f) -> Panic(op, key)
             [] hit /\ exclusive /\ borrowMutPanics(f.pos) -> Panic(op, key)
             [] hit /\ ~exclusive /\ borrowPanics(borrows, f.pos) -> Panic(op, key)
             [] hit /\ exclusive /\ ~borrowMutPanics(f.pos) ->
                  /\ Borrowed < MaxHandles
                  /\ borrows' = SetBorrow(f.pos, Readers(f.pos), Writers(f.pos) + 1)
                  /\ UNCHANGED <<pc, fault>>
             [] hit /\ ~exclusive /\ ~borrowPanics(borrows, f.pos) ->
                  /\ Borrowed < MaxHandles
                  /\ borrows' = SetBorrow(f.pos, Readers(f.pos) + 1, Writers(f.pos))
                  /\ UNCHANGED <<pc, fault>>
             [] OTHER -> UNCHANGED <<pc, fault, borrows>>
    /\ UNCHANGED <<params, hashOf, capacity, len, table, drainPos, yielded,
                   drainFrom, absMap, dirty, build>>

\* index.get(key): Option<Ref<V>>
Get(key) == Lookup("get", key, FALSE)

\* index.get_pair(key): Option<Ref<(K, V)>>
GetPair(key) == Lookup("get_pair", key, FALSE)

\* index.get_mut(key): Option<RefMut<V>>
GetMut(key) == Lookup("get_mut", key, TRUE)

\* A write through the RefMut<V> of get_mut: RefMut::map has narrowed the
\* handle to the value of the pair.
writeValue(idx, pos, value) ==
    [idx EXCEPT !.table[pos] = <<@[1], value>>]

\* *handle = value, for a live handle of get_mut or values_mut on bucket i,
\* or entry.1 = value for a live entry of iter_mut.
WriteValue(i, value) ==
    /\ pc = "idle"
    /\ LiveWriters(i) > 0
    /\ table' = writeValue(Self, i, value).table
    /\ absMap' = IF plain
                 THEN [absMap EXCEPT ![table[i][1]] = Some(value)]
                 ELSE absMap
    /\ UNCHANGED <<params, hashOf, capacity, len, pc, drainPos, yielded,
                   drainFrom, dirty, borrows, fault, build>>

\* A Ref of get, get_pair or a shared iterator on bucket i goes out of scope.
DropRef(i) ==
    /\ pc = "idle"
    /\ LiveReaders(i) > 0
    /\ borrows' = SetBorrow(i, Readers(i) - 1, Writers(i))
    /\ UNCHANGED <<params, hashOf, capacity, len, table, pc, drainPos, yielded,
                   drainFrom, absMap, dirty, fault, build>>

\* The Iter, Keys or Values yields the entry of the Occupied bucket i, the
\* caller keeps it: borrow of the bucket, which panics when the bucket is
\* mutably borrowed.
IterNext(i) ==
    /\ pc = "idle"
    /\ i \in Occupied(Self)
    /\ IF borrowPanics(borrows, i)
       THEN Panic("iter", table[i][1])
       ELSE /\ Borrowed < MaxHandles
            /\ borrows' = SetBorrow(i, Readers(i) + 1, 0)
            /\ UNCHANGED <<pc, fault>>
    /\ UNCHANGED <<params, hashOf, capacity, len, table, drainPos, yielded,
                   drainFrom, absMap, dirty, build>>

\* The IterMut or ValuesMut yields the entry of the Occupied bucket i, the
\* caller keeps it: borrow_mut of the bucket, which panics when the bucket
\* is borrowed.  The iterators take &self and run no find.
YieldMut(op, i, whole) ==
    /\ pc = "idle"
    /\ i \in Occupied(Self)
    /\ IF borrowMutPanics(i)
       THEN Panic(op, table[i][1])
       ELSE /\ Borrowed < MaxHandles
            /\ borrows' = SetBorrowAs(i, 0, 1, whole)
            /\ UNCHANGED <<pc, fault>>
    /\ UNCHANGED <<params, hashOf, capacity, len, table, drainPos, yielded,
                   drainFrom, absMap, dirty, build>>

\* index.iter_mut(), advanced to bucket i: RefMut<(K, V)>
IterMutNext(i) == YieldMut("iter_mut", i, TRUE)

\* index.values_mut(), advanced to bucket i: RefMut<V>
ValuesMutNext(i) == YieldMut("values_mut", i, FALSE)

\* *entry = (key, value), for a live entry of iter_mut on bucket i: the
\* RefMut<(K, V)> lets the caller replace the key, the value or both.
WritePair(i, key, value) ==
    /\ pc = "idle"
    /\ dirty < MaxDirty
    /\ Whole(i)
    /\ table[i] # <<key, value>>
    /\ table' = [table EXCEPT ![i] = <<key, value>>]
    /\ absMap' = NoMap(DOMAIN hashOf)
    /\ dirty' = dirty + 1
    /\ UNCHANGED <<params, hashOf, capacity, len, pc, drainPos, yielded,
                   drainFrom, borrows, fault, build>>

\* The RefMut of get_mut, values_mut or iter_mut on bucket i goes out of
\* scope.
DropRefMut(i) ==
    /\ pc = "idle"
    /\ LiveWriters(i) > 0
    /\ borrows' = SetBorrow(i, Readers(i), Writers(i) - 1)
    /\ UNCHANGED <<params, hashOf, capacity, len, table, pc, drainPos, yielded,
                   drainFrom, absMap, dirty, fault, build>>

\* std::mem::forget(handle), for a Ref or RefMut alive on bucket i: the
\* handle is gone and its borrow is never released, so that the calls through
\* &mut self can follow while the RefCell still counts it.  At most
\* MaxForgotten buckets are left borrowed in this way.
Forget(i) ==
    /\ pc = "idle"
    /\ LiveReaders(i) + LiveWriters(i) > 0
    /\ Forgotten(i) > 0 \/ Cardinality({b \in borrows : b[5] > 0}) < MaxForgotten
    /\ borrows' = {IF b[1] = i THEN <<b[1], b[2], b[3], b[4], b[5] + 1>> ELSE b :
                      b \in borrows}
    /\ UNCHANGED <<params, hashOf, capacity, len, table, pc, drainPos, yielded,
                   drainFrom, absMap, dirty, fault, build>>

\* Inserts, clear, drains that may be abandoned, and the entries of iter_mut,
\* each dropped before the next call through &mut self.  The handles that
\* are forgotten instead are steps of SpecFind, SpecHandles and
\* SpecWordBorrow.
Next ==
    \/ \E k \in DOMAIN hashOf, v \in Values : Insert(k, v)
    \/ Clear
    \/ \E i \in 0 .. capacity - 1 : IterMutNext(i)
    \/ \E i \in 0 .. capacity - 1, k \in DOMAIN hashOf, v \in Values :
         WritePair(i, k, v)
    \/ \E i \in 0 .. capacity - 1 : DropRefMut(i)
    \/ DrainStart
    \/ DrainNext
    \/ DrainDrop

Spec == Init /\ [][Next]_vars

\* The growth trace of the documentation tests: the default configuration,
\* four keys, a table from new() or with_capacity(2), and inserts only.
InitTrace == InitWith(AllKeys, TraceHashes, {DefaultParams}, {1, 2}, {"debug"})

NextTrace == \E k \in DOMAIN hashOf, v \in Values : Insert(k, v)

SpecTrace == InitTrace /\ [][NextTrace]_vars

\* Lookups and their handles on the tables that inserts make.
NextBorrow ==
    \/ \E k \in DOMAIN hashOf, v \in Values : Insert(k, v)
    \/ \E k \in DOMAIN hashOf : Get(k)
    \/ \E k \in DOMAIN hashOf : GetPair(k)
    \/ \E k \in DOMAIN hashOf : GetMut(k)
    \/ \E i \in 0 .. capacity - 1, v \in Values : WriteValue(i, v)
    \/ \E i \in 0 .. capacity - 1 : DropRef(i)
    \/ \E i \in 0 .. capacity - 1 : DropRefMut(i)

\* The configurations whose growth doubles the table.
BorrowConfigs == {c \in Configs : c.growth_policy = DEFAULT_GROWTH_POLICY}

InitBorrow == InitWith(Keys, Hashes, BorrowConfigs, 0 .. MaxInitCap, {"debug"})

SpecBorrow == InitBorrow /\ [][NextBorrow]_vars

\* Every source of a handle: the lookups and the mutable iterators, whose
\* entries the caller keeps while it calls on, under the default
\* configuration and with two keys.
NextHandles ==
    \/ \E k \in DOMAIN hashOf, v \in Values : Insert(k, v)
    \/ \E k \in DOMAIN hashOf : Get(k)
    \/ \E k \in DOMAIN hashOf : GetPair(k)
    \/ \E k \in DOMAIN hashOf : GetMut(k)
    \/ \E i \in 0 .. capacity - 1 : IterNext(i)
    \/ \E i \in 0 .. capacity - 1 : IterMutNext(i)
    \/ \E i \in 0 .. capacity - 1 : ValuesMutNext(i)
    \/ \E i \in 0 .. capacity - 1, k \in DOMAIN hashOf, v \in Values :
         WritePair(i, k, v)
    \/ \E i \in 0 .. capacity - 1, v \in Values : WriteValue(i, v)
    \/ \E i \in 0 .. capacity - 1 : DropRef(i)
    \/ \E i \in 0 .. capacity - 1 : DropRefMut(i)
    \/ \E i \in 0 .. capacity - 1 : Forget(i)

InitHandles ==
    InitWith(Keys \ {"c"}, Hashes, {DefaultParams}, 0 .. MaxInitCap, {"debug"})

SpecHandles == InitHandles /\ [][NextHandles]_vars

\* Every operation that changes the engine but iter_mut: inserts, clear,
\* drains that may be abandoned, and writes through get_mut and values_mut.
\* The calls that only read (get, get_pair, keys, values, iter) are left out:
\* they are steps of SpecHandles.
NextDrain ==
    \/ \E k \in DOMAIN hashOf, v \in Values : Insert(k, v)
    \/ Clear
    \/ DrainStart
    \/ DrainNext
    \/ DrainDrop
    \/ \E k \in DOMAIN hashOf : GetMut(k)
    \/ \E i \in 0 .. capacity - 1 : ValuesMutNext(i)
    \/ \E i \in 0 .. capacity - 1, v \in Values : WriteValue(i, v)
    \/ \E i \in 0 .. capacity - 1 : DropRefMut(i)

SpecDrain == Init /\ [][NextDrain]_vars

\* Hashes at both ends of the word, under the default configuration and in
\* both builds.
WordHashes == {0, 1, 2, Word - 2, Word - 1}

InitWord ==
    InitWith(Keys, WordHashes, {DefaultParams}, 0 .. MaxInitCap,
             {"debug", "release"})

NextWord == \E k \in DOMAIN hashOf, v \in Values : Insert(k, v)

SpecWord == InitWord /\ [][NextWord]_vars

\* Lookups and their handles, dropped or forgotten, with hashes at both
\* ends of the word, in both builds, with two keys.
InitWordBorrow ==
    InitWith(Keys \ {"c"}, WordHashes, {DefaultParams}, 0 .. MaxInitCap,
             {"debug", "release"})

NextWordBorrow ==
    \/ NextBorrow
    \/ \E i \in 0 .. capacity - 1 : Forget(i)

SpecWordBorrow == InitWordBorrow /\ [][NextWordBorrow]_vars

\* Every caller of find, through &self (get, get_pair, get_mut) and through
\* &mut self (insert, and resize with its Drain), on the tables that
\* inserts, clear and drains make, with handles alive, dropped or forgotten:
\* insert, clear and drain also run on tables with a bucket left borrowed.
\* All configurations, two keys.
NextFind ==
    \/ \E k \in DOMAIN hashOf, v \in Values : Insert(k, v)
    \/ Clear
    \/ DrainStart
    \/ DrainNext
    \/ DrainDrop
    \/ \E k \in DOMAIN hashOf : Get(k)
    \/ \E k \in DOMAIN hashOf : GetPair(k)
    \/ \E k \in DOMAIN hashOf : GetMut(k)
    \/ \E i \in 0 .. capacity - 1 : DropRef(i)
    \/ \E i \in 0 .. capacity - 1 : DropRefMut(i)
    \/ \E i \in 0 .. capacity - 1 : Forget(i)

InitFind == InitWith(Keys \ {"c"}, Hashes, Configs, 0 .. MaxInitCap, {"debug"})

SpecFind == InitFind /\ [][NextFind]_vars

\* ----------------------------------------------------------------- claims

\* The keys the abstract map holds.
Inserted == {k \in DOMAIN hashOf : absMap[k] # None}

\* C1: under the default configuration, after inserts (growth included),
\* clear() and exhausted drains, get(k) is the value of the last insert of k
\* since the table was last emptied, and not found for every other key.
MapRefinement ==
    (Quiet /\ Unlocked /\ plain /\ params = DefaultParams)
        => \A k \in DOMAIN hashOf : get(Self, k) = absMap[k]

\* A grown table that holds every key, one of them overwritten.
MapRefinementWitness ==
    /\ Quiet /\ plain /\ params = DefaultParams
    /\ capacity > MaxInitCap
    /\ Inserted = DOMAIN hashOf
    /\ get(Self, "a") = Some(2)
    /\ get(Self, "b") = Some(1)

\* C3: under the default configuration, from new() or with_capacity(2),
\* once four distinct keys are inserted len is 4 and capacity is 8, whatever
\* the hashes of the keys and the order of the inserts.
GrowthTrace ==
    Cardinality(Inserted) = 4 => (len = 4 /\ capacity = 8)

\* Four keys are stored.
GrowthTraceWitness ==
    /\ Cardinality(Inserted) = 4
    /\ len = 4
    /\ capacity = 8
    /\ hashOf["a"] = hashOf["b"]

\* C5: len is the number of Occupied buckets, which is what keys(), values()
\* and iter() count, in every state, also between the steps of a drain.
LenIsCount == len = count(Self)

\* A drain that has taken some pairs and left others.
LenIsCountWitness ==
    /\ pc = "draining"
    /\ Len(yielded) >= 1
    /\ len >= 1
    /\ count(Self) = len

\* How often the Drain has yielded the pair p, and how many buckets held it
\* when the Drain was created.
TimesYielded(p) == Cardinality({n \in 1 .. Len(yielded) : yielded[n] = p})
TimesStored(idx, p) == Cardinality({i \in Occupied(idx) : idx.table[i] = p})

\* C10: every step of a drain empties one Occupied bucket and takes one off
\* len, capacity stays, and once the drain is exhausted it has yielded every
\* pair stored at its start exactly once and nothing else, len is 0 and
\* every bucket is Empty.
DrainCompleteness ==
    /\ pc \in {"draining", "drained"} =>
          /\ capacity = drainFrom.capacity
          /\ len = drainFrom.len - Len(yielded)
          /\ count(Self) = count(drainFrom) - Len(yielded)
          /\ \A i \in 0 .. capacity - 1 :
                table[i] = Empty \/ table[i] = drainFrom.table[i]
          /\ \A n \in 1 .. Len(yielded) :
                TimesYielded(yielded[n]) <= TimesStored(drainFrom, yielded[n])
    /\ pc = "drained" =>
          /\ len = 0
          /\ Occupied(Self) = {}
          /\ \A p \in Pairs(drainFrom) :
                TimesYielded(p) = TimesStored(drainFrom, p)
          /\ \A n \in 1 .. Len(yielded) : yielded[n] \in Pairs(drainFrom)

\* An exhausted drain of a table that held three pairs.
DrainCompletenessWitness ==
    /\ pc = "drained"
    /\ Len(yielded) = 3
    /\ drainFrom.len = 3
    /\ capacity >= 4

\* An insert from this engine calls grow: before anything else because the
\* load has reached max_load, or because find is exhausted for its key.
GrowTriggered(idx) ==
    \/ LoadCheck(idx)
    \/ \E k \in DOMAIN hashOf : find(idx, hashOf[k], k).kind = "exhausted"

\* What C2 says of insert(k, v2) on the present table, for every key k that
\* get finds.
OverwriteHolds ==
    \A k \in DOMAIN hashOf, v2 \in Values :
        get(Self, k) # None =>
          LET r == insert(Self, k, v2, {})
          IN  r.status = "ok" =>
                /\ r.ret = <<k, get(Self, k)[1]>>
                /\ r.idx.len = len
                /\ get(r.idx, k) = Some(v2)
                /\ \A o \in DOMAIN hashOf \ {k} : get(r.idx, o) = get(Self, o)
                /\ (~LoadCheck(Self) => r.idx.capacity = capacity)

\* C2: insert(k, v2) on a table that holds k with v1 returns (k, v1), leaves
\* len and the values of the other keys unchanged, makes get(k) return v2,
\* and leaves capacity unchanged when the load is below max_load.
OverwriteSemantics == (Quiet /\ Unlocked) => OverwriteHolds

\* The same on the tables that insert, clear and exhausted drains alone
\* have made.
OverwriteSemanticsPlain == (Quiet /\ Unlocked /\ plain) => OverwriteHolds

\* C4: whenever insert writes a new pair into an Empty bucket,
\* len / capacity < max_load just before the write; so in every state
\* len = 0 or (len - 1) / capacity < max_load.
LoadBelowMaxBeforeWrite ==
    Quiet =>
      /\ \A k \in DOMAIN hashOf, v \in Values :
            LET r == insert(Self, k, v, {})
            IN  (r.status = "ok" /\ r.ret = Empty) =>
                  RatLess(<<r.idx.len - 1, r.idx.capacity>>, params.max_load)
      /\ (len = 0 \/ RatLess(<<len - 1, capacity>>, params.max_load))

\* C6: for every Occupied bucket, the lookup of its key reaches that bucket
\* before any Empty one, so that get is a hit on it (stated where a lookup
\* can be called and passes every bucket: no Drain is alive and no bucket
\* is mutably borrowed).
LookupIntegrity ==
    (Quiet /\ Unlocked) =>
      \A i \in Occupied(Self) :
         find(Self, hashOf[table[i][1]], table[i][1])
            = [kind |-> "hit", pos |-> i]

\* The same on the tables that insert, clear and exhausted drains alone
\* have made.
LookupIntegrityPlain == plain => LookupIntegrity

\* What C7 says of the growth an insert from the present table triggers.
\* (The parameters are not part of the engine record: resize passes a clone
\* of them to the new engine.)
GrowthPreserves ==
    GrowTriggered(Self) =>
       LET r == grow(Self)
       IN  (r.status = "ok" /\ r.idx.capacity > capacity) =>
             /\ Pairs(r.idx) = Pairs(Self)
             /\ r.idx.len = len
             /\ \A k \in DOMAIN hashOf :
                   get(Self, k) # None => get(r.idx, k) = get(Self, k)

\* C7: a growth of the table keeps the stored pairs, len and the value get
\* returns for every key that was present.
GrowthPreservesContents == (Quiet /\ Unlocked) => GrowthPreserves

\* The same on the tables that insert, clear and exhausted drains alone
\* have made.
GrowthPreservesContentsPlain == (Quiet /\ Unlocked /\ plain) => GrowthPreserves

\* C8: every insert returns after finitely many grow-and-retry rounds.
InsertTerminates == pc # "diverged"

\* C9: the capacity after grow() is strictly greater than the capacity
\* before it, wherever an insert calls grow.
GrowStrictlyIncreases ==
    (Quiet /\ GrowTriggered(Self)) =>
        LET r == grow(Self)
        IN  r.status = "ok" => r.idx.capacity > capacity

\* C11: clear() sets every bucket to Empty and len to 0 and leaves capacity
\* and the parameters as they are; right after it is_empty() is true and
\* get(k) is not found for every key, whatever the table held.
ClearResets ==
    [][Clear =>
         /\ DOMAIN table' = 0 .. capacity - 1
         /\ \A i \in 0 .. capacity - 1 : table'[i] = Empty
         /\ len' = 0
         /\ capacity' = capacity
         /\ params' = params
         /\ \A k \in DOMAIN hashOf : (get(Self, k))' = None]_vars

\* The table a clear() leaves behind after inserts have grown it past every
\* capacity of construction: empty, and as large as it was.
ClearResetsWitness ==
    /\ Quiet
    /\ capacity > MaxInitCap
    /\ len = 0
    /\ Occupied(Self) = {}
    /\ \A k \in DOMAIN hashOf : get(Self, k) = None

\* C12: in every state capacity >= 1, the table has exactly capacity buckets
\* and len <= capacity; an engine fresh from construction, whatever capacity
\* was requested (0 is coerced to 1), has len 0 and only Empty buckets.
CapacityBounds ==
    /\ capacity >= 1
    /\ DOMAIN table = 0 .. capacity - 1
    /\ len <= capacity
    /\ \A cap \in 0 .. MaxInitCap :
          LET idx == with_capacity_and_parameters(cap)
          IN  /\ idx.capacity >= 1
              /\ (cap >= 1 => idx.capacity = cap)
              /\ idx.len = 0
              /\ DOMAIN idx.table = 0 .. idx.capacity - 1
              /\ Occupied(idx) = {}

\* A table built with a requested capacity of at most MaxInitCap, grown by
\* inserts to 8 buckets or more, in the middle of a drain.
CapacityBoundsWitness ==
    /\ pc = "draining"
    /\ capacity >= 8
    /\ Len(yielded) = 1
    /\ len = 2

\* The position probe(hash(k), i) mod capacity, and the attempts at which a
\* lookup of k stops: the bucket there is Empty or holds k.
PathPos(k, i) == ProbeSum(hashOf[k], i) % capacity
Stops(k) ==
    {i \in 0 .. capacity - 1 :
        \/ table[PathPos(k, i)] = Empty
        \/ table[PathPos(k, i)][1] = k}

\* What C15 says of find on the present table, for every key: the outcome
\* is that of the least stopping attempt, or exhausted when there is none.
FindStops ==
    \A k \in DOMAIN hashOf :
       LET f == find(Self, hashOf[k], k)
           S == Stops(k)
       IN  IF S = {}
           THEN f.kind = "exhausted"
           ELSE LET m == CHOOSE i \in S : \A j \in S : i <= j
                    p == PathPos(k, m)
                IN  /\ f.pos = p
                    /\ f.kind = IF table[p] = Empty THEN "empty" ELSE "hit"

\* C15: find examines probe(hash, i) mod capacity for i = 0, 1, ... in that
\* order and stops at the first position that is Empty (the insertion point)
\* or holds an entry the predicate accepts (a hit); it is exhausted exactly
\* when all capacity positions examined hold entries the predicate rejects
\* (stated wherever find can be called on the table, through &self or
\* &mut self: no Drain is alive; handles may be).
FindBehaviour == pc = "idle" => FindStops

\* The same where no bucket is mutably borrowed.
FindBehaviourUnlocked == (pc = "idle" /\ Unlocked) => FindStops

\* C19: an insert that does not grow the table (the load is below max_load
\* and find is not exhausted) changes exactly the bucket find returned: on
\* the Empty outcome the bucket becomes (key, value), len grows by one and
\* the result is no previous entry; on a hit the pair of the bucket is
\* replaced and len stays; capacity, the parameters and every other bucket
\* are unchanged.
InsertFrame ==
    [][\A k \in DOMAIN hashOf, v \in Values :
         LET f == find(Self, hashOf[k], k)
         IN  (Insert(k, v) /\ ~LoadCheck(Self) /\ f.kind \in {"hit", "empty"}) =>
               /\ pc' = "idle"
               /\ capacity' = capacity
               /\ params' = params
               /\ DOMAIN table' = DOMAIN table
               /\ \A i \in DOMAIN table \ {f.pos} : table'[i] = table[i]
               /\ table'[f.pos] = <<k, v>>
               /\ f.kind = "empty" =>
                     /\ len' = len + 1
                     /\ insert(Self, k, v, {}).ret = Empty
               /\ f.kind = "hit" =>
                     /\ len' = len
                     /\ insert(Self, k, v, {}).ret = table[f.pos]]_vars

\* A table from with_capacity(2) or new() that holds one pair at a load
\* below max_load: the pair was stored, or stored and then replaced, by
\* inserts that did not grow the table.
InsertFrameWitness ==
    /\ Quiet /\ params = DefaultParams
    /\ capacity = 2
    /\ len = 1
    /\ \E k \in DOMAIN hashOf : get(Self, k) = Some(2)

\* The step is a call of get, get_pair or get_mut for key k.
IsLookup(k) == Get(k) \/ GetPair(k) \/ GetMut(k)

\* No Occupied bucket holds k.
Absent(k) == \A i \in Occupied(Self) : table[i][1] # k

\* What C13 says of the lookups and of the write through get_mut, but for
\* the absent keys.
LookupFrameHolds ==
    /\ \A k \in DOMAIN hashOf :
          IsLookup(k) =>
            /\ capacity' = capacity
            /\ len' = len
            /\ DOMAIN table' = DOMAIN table
            /\ \A i \in DOMAIN table :
                  /\ table'[i] = Empty <=> table[i] = Empty
                  /\ table[i] # Empty => table'[i][1] = table[i][1]
    /\ \A i \in DOMAIN table, v \in Values :
          WriteValue(i, v) =>
            /\ capacity' = capacity
            /\ len' = len
            /\ table'[i] = <<table[i][1], v>>
            /\ \A j \in DOMAIN table \ {i} : table'[j] = table[j]

\* C13: get, get_mut and get_pair change neither capacity, len, the set of
\* Occupied buckets nor any stored key; the lookup of an absent key returns
\* not found and does not panic; a write through the handle of get_mut(k)
\* changes the value stored with k and nothing else.
LookupFrame ==
    [][/\ LookupFrameHolds
       /\ \A k \in DOMAIN hashOf :
             (IsLookup(k) /\ Absent(k)) =>
                (pc' = "idle" /\ borrows' = borrows)]_vars

\* The same without the sentence on absent keys.
LookupFrameStructure == [][LookupFrameHolds]_vars

\* The bucket a lookup of k hits, going by the contents of the table alone.
HitSlots(k) ==
    IF Stops(k) = {} THEN {}
    ELSE LET m == CHOOSE i \in Stops(k) : \A j \in Stops(k) : i <= j
         IN  IF table[PathPos(k, m)] = Empty THEN {} ELSE {PathPos(k, m)}

\* The buckets a lookup of k examines, going by the contents of the table
\* alone: up to and including the one where it stops.
PathSlots(k) ==
    LET last == IF Stops(k) = {} THEN capacity - 1
                ELSE CHOOSE i \in Stops(k) : \A j \in Stops(k) : i <= j
    IN  {PathPos(k, i) : i \in 0 .. last}

\* No bucket that a lookup of k examines has a live exclusive handle.
PathFree(k) == \A q \in PathSlots(k) : table[q] = Empty \/ Writers(q) = 0

\* C14: shared handles on one bucket are alive together without a panic (a
\* get or get_pair that meets no exclusive handle adds one to those alive on
\* the bucket it hits); a get_mut that hits a bucket with a live handle of
\* any kind, and a get or get_pair that hits a bucket with a live exclusive
\* handle, panics and hands out nothing; so no bucket ever has an exclusive
\* handle alive together with another handle.
BorrowRule ==
    /\ [](\A b \in borrows : b[3] = 0 \/ (b[3] = 1 /\ b[2] = 0))
    /\ [][\A k \in DOMAIN hashOf : \A p \in HitSlots(k) :
            /\ (GetMut(k) /\ Readers(p) + Writers(p) > 0) =>
                  (pc' = "faulted" /\ borrows' = borrows)
            /\ ((Get(k) \/ GetPair(k)) /\ Writers(p) > 0) =>
                  (pc' = "faulted" /\ borrows' = borrows)
            /\ ((Get(k) \/ GetPair(k)) /\ Readers(p) > 0 /\ PathFree(k)) =>
                  (pc' = "idle" /\ borrows' = SetBorrow(p, Readers(p) + 1, 0))]_vars

\* Two shared handles alive on the bucket of a key, and the get_mut of that
\* key panicked.
BorrowRuleWitness ==
    /\ pc = "faulted"
    /\ fault.op = "get_mut"
    /\ \E p \in HitSlots(fault.key) : Readers(p) = 2

\* A lookup of k by op panics, as C18 has it: by the handles alive.
MustPanic(op, k) ==
    \/ \E p \in PathSlots(k) : table[p] # Empty /\ LiveWriters(p) > 0
    \/ op = "get_mut"
          /\ \E p \in HitSlots(k) : LiveReaders(p) + LiveWriters(p) > 0

\* What C18 says of the step, when it is a lookup.
PanicByHandles ==
    \A k \in DOMAIN hashOf :
       /\ Get(k) => (pc' = "faulted" <=> MustPanic("get", k))
       /\ GetPair(k) => (pc' = "faulted" <=> MustPanic("get_pair", k))
       /\ GetMut(k) => (pc' = "faulted" <=> MustPanic("get_mut", k))

\* No probe of a lookup on the present table overflows the word.
NoProbeOverflows ==
    \A k \in DOMAIN hashOf : \A i \in 0 .. capacity - 1 :
       ~ProbeOverflows(hashOf[k], i)

\* No handle was forgotten: every borrow is that of a handle alive.
NoneForgotten == \A b \in borrows : b[5] = 0

\* C18: a lookup of k panics exactly when an Occupied bucket on the probe
\* path of k, up to and including the bucket where the lookup stops, has a
\* live exclusive handle, or the lookup is get_mut and the bucket it hits has
\* a live handle; so a lookup of k2 during a get_mut handle of another key
\* k1 panics exactly when the path of k2 visits the bucket of k1.
PanicRule == [][PanicByHandles]_vars

\* The same where no probe overflows and no handle was forgotten.
PanicRuleLive ==
    [][(NoProbeOverflows /\ NoneForgotten) => PanicByHandles]_vars

\* The "if" half alone: a lookup that C18 says panics does panic.
PanicRuleIf ==
    [][\A k \in DOMAIN hashOf :
         /\ (Get(k) /\ MustPanic("get", k)) => pc' = "faulted"
         /\ (GetPair(k) /\ MustPanic("get_pair", k)) => pc' = "faulted"
         /\ (GetMut(k) /\ MustPanic("get_mut", k)) => pc' = "faulted"]_vars

\* A get panicked in a debug build on the overflow of its probe, with no
\* bucket borrowed.
PanicWithoutHandle ==
    /\ pc = "faulted"
    /\ fault.op = "get"
    /\ build = "debug"
    /\ borrows = {}

\* A get panicked on a bucket whose RefMut was forgotten, with no handle
\* alive.
PanicOnForgotten ==
    /\ pc = "faulted"
    /\ fault.op = "get"
    /\ NoHandle
    /\ NoProbeOverflows
    /\ \E i \in PathSlots(fault.key) : table[i] # Empty /\ Writers(i) = 1

\* C17: no two Occupied buckets hold equal keys, after any sequence of
\* inserts, growth, clear, writes through get_mut and drain steps, where a
\* drain may be abandoned and followed by inserts.
NoDuplicateKeys ==
    \A i, j \in Occupied(Self) : i # j => table[i][1] # table[j][1]

\* The same on the tables made without abandoning a drain.
NoDuplicateKeysPlain == plain => NoDuplicateKeys

\* c is cap doubled some number of times.
RECURSIVE IsDoubling(_, _)
IsDoubling(cap, c) ==
    c = cap \/ (c > cap /\ c % 2 = 0 /\ IsDoubling(cap, c \div 2))

\* Under the default configuration find is exhausted for some key although
\* Empty buckets remain.
ExhaustedWithEmptyBuckets ==
    /\ Quiet /\ plain /\ params = DefaultParams
    /\ len < capacity
    /\ \E k \in DOMAIN hashOf : find(Self, hashOf[k], k).kind = "exhausted"

\* What C16 says of the insert of every key that no bucket holds.
NewKeyStored ==
    \A k \in DOMAIN hashOf, v \in Values :
       Absent(k) =>
         LET r == insert(Self, k, v, {})
         IN  /\ r.status \notin {"diverged", "faulted"}
             /\ r.status = "ok" =>
                   /\ IsDoubling(capacity, r.idx.capacity)
                   /\ get(r.idx, k) = Some(v)
                   /\ r.idx.len = len + 1
                   /\ \A o \in DOMAIN hashOf :
                         get(Self, o) # None => get(r.idx, o) # None

\* C16: under the default configuration find can be exhausted while Empty
\* buckets remain, and every insert of a new key still returns: after some
\* doublings of the capacity the key is stored, len has grown by exactly
\* one and every key that was retrievable still is.
DefaultProbeTermination ==
    (Quiet /\ Unlocked /\ params = DefaultParams) => NewKeyStored

\* The same on the tables that insert, clear and exhausted drains alone
\* have made.
DefaultProbeTerminationPlain ==
    (Quiet /\ Unlocked /\ plain /\ params = DefaultParams) => NewKeyStored

\* The attempts i that find passes to the probe for k on the present table:
\* up to the first one that panics, or whose bucket is Empty or holds k.
RECURSIVE AttemptsFrom(_, _)
AttemptsFrom(k, i) ==
    IF i >= capacity THEN {}
    ELSE IF ProbeOverflows(hashOf[k], i) /\ build = "debug" THEN {i}
    ELSE LET p == ProbeAt(hashOf[k], i) % capacity
             b == table[p]
         IN  IF b = Empty \/ borrowPanics(borrows, p) \/ b[1] = k
             THEN {i}
             ELSE {i} \cup AttemptsFrom(k, i + 1)

\* C20: the probe hash + i + i*i never overflows the word, for the hashes in
\* [0, 2^w) and the attempts i < capacity that find makes: no call panics on
\* the arithmetic, and the position probed is (hash + i + i*i) mod capacity.
ProbeNeverOverflows ==
    /\ pc # "faulted"
    /\ Quiet =>
          \A k \in DOMAIN hashOf : \A i \in AttemptsFrom(k, 0) :
             /\ ~ProbeOverflows(hashOf[k], i)
             /\ ProbeAt(hashOf[k], i) % capacity = ProbeSum(hashOf[k], i) % capacity

\* The same for the hashes that leave room for the attempts: with
\* hash + capacity + capacity^2 below the word nothing overflows.
ProbeNeverOverflowsSmall ==
    (\A k \in DOMAIN hashOf : hashOf[k] + MaxCapacity + MaxCapacity * MaxCapacity < Word)
       => ProbeNeverOverflows

=============================================================================
